---- MODULE Spec2Model ----
(***************************************************************************)
(* Model of the outfit analyser of src/src/App.jsx: the region statistics  *)
(* engine (computeStats), the segmentation partitioner and finding filter  *)
(* inside analyze, the report synthesizer (buildMarkdown), and the         *)
(* component state around them (model loading, handleSubmit).              *)
(*                                                                         *)
(* Numbers.  JavaScript numbers are IEEE doubles.  Luma is kept as the     *)
(* exact integer 10000 * (0.2126 r + 0.7152 g + 0.0722 b); averages and    *)
(* HSL components are kept as exact fractions [num, den]; the colours of  *)
(* the inputs are such that every comparison and rounding of these values  *)
(* comes out as it does on the doubles of the code.  Swatch ratios and     *)
(* exposure fractions are kept as the doubles themselves (see FDivide).    *)
(* A buffer is a flat sequence of bytes; JavaScript index i is TLA+ index  *)
(* i + 1.                                                                  *)
(***************************************************************************)
EXTENDS Integers, Sequences, FiniteSets, TLC

\* ------------------------------------------------------------------ bounds
\* The most pixels of an image given to computeStats on its own.
MaxPx == 4

\* The largest image given to analyze, and the longest detection list.
MaxW == 2
MaxH == 3
MaxDet == 3

\* ------------------------------------------------------- program constants
TopN == 5
LumaScale == 10000
LumaR == 2126
LumaG == 7152
LumaB == 722
DarkLimit == 30
LightLimit == 225
ByteMax == 255

\* null, as a record so that it compares with profiles and masks.
\* One pixel more than the dominant list has places, and one more than that.
RowLen == TopN + 1
WideLen == TopN + 2

Null == [null |-> TRUE]

Min2(a, b) == IF a < b THEN a ELSE b
Max2(a, b) == IF a > b THEN a ELSE b

\* Math.round of the non-negative fraction num/den: floor(x + 0.5).
Round(num, den) == (2 * num + den) \div (2 * den)

\* The largest number of pixels of an input image.
MaxRegion == Max2(Max2(MaxPx, WideLen), MaxW * MaxH)

\* ------------------------------------------------------------ IEEE doubles
\* The quotients the code keeps or compares as doubles (count / pxCount,
\* veryLight / pxCount) are modelled bit for bit.  A non-negative double x is
\* the integer x * 2^60, written <<a, b, c>> for a * 2^40 + b * 2^20 + c;
\* every double in [2^-8, 2^7) is such an integer.
LimbBase == 1048576

RECURSIVE Pow2(_)
Pow2(k) == IF k = 0 THEN 1 ELSE 2 * Pow2(k - 1)

RECURSIVE BitLen(_)
BitLen(n) == IF n = 0 THEN 0 ELSE 1 + BitLen(n \div 2)

BNorm(a, b, c) ==
  LET b1 == b + (c \div LimbBase)
  IN <<a + (b1 \div LimbBase), b1 % LimbBase, c % LimbBase>>

BAdd(x, y) == BNorm(x[1] + y[1], x[2] + y[2], x[3] + y[3])

BLess(x, y) ==
  \/ x[1] < y[1]
  \/ x[1] = y[1] /\ x[2] < y[2]
  \/ x[1] = y[1] /\ x[2] = y[2] /\ x[3] < y[3]

BBits(x) ==
  IF x[1] > 0 THEN 40 + BitLen(x[1])
  ELSE IF x[2] > 0 THEN 20 + BitLen(x[2]) ELSE BitLen(x[3])

FZero == <<0, 0, 0>>
FOne == <<LimbBase, 0, 0>>
FQuarter == <<LimbBase \div 4, 0, 0>>
FHalf == <<LimbBase \div 2, 0, 0>>

\* Round an exact value to the nearest double (53 significant bits, ties to
\* even).
RoundDouble(x) ==
  IF BBits(x) <= 53 THEN x
  ELSE LET m == Pow2(BBits(x) - 53)
           rem == x[3] % m
           odd == (x[3] \div m) % 2 = 1
       IN IF 2 * rem > m \/ (2 * rem = m /\ odd)
          THEN BNorm(x[1], x[2], x[3] - rem + m)
          ELSE <<x[1], x[2], x[3] - rem>>

\* The double k / n for integers 0 <= k <= n, 0 < n <= 256: three limbs of the
\* binary expansion by long division, then rounded to 53 significant bits
\* (ties to even) with the division's remainder as the sticky part.
FDivide(k, n) ==
  IF k = 0 THEN FZero
  ELSE LET a == (k * LimbBase) \div n
           r1 == (k * LimbBase) % n
           b == (r1 * LimbBase) \div n
           r2 == (r1 * LimbBase) % n
           c == (r2 * LimbBase) \div n
           r3 == (r2 * LimbBase) % n
           m == Pow2(BBits(<<a, b, c>>) - 53)
           rem == c % m
           odd == (c \div m) % 2 = 1
           up == IF m = 1 THEN 2 * r3 > n \/ (2 * r3 = n /\ odd)
                 ELSE \/ 2 * rem > m
                      \/ 2 * rem = m /\ (r3 > 0 \/ odd)
       IN IF up THEN BNorm(a, b, c - rem + m) ELSE <<a, b, c - rem>>

\* FDivide for every region size the inputs below can produce, computed once.
FDivTable == [n \in 1..MaxRegion |-> [k \in 0..n |-> FDivide(k, n)]]

FDiv(k, n) == FDivTable[n][k]

\* JavaScript a + b on doubles.
FAdd(x, y) == RoundDouble(BAdd(x, y))

\* Math.round(x * 100) for a double x <= 1.
FPercent(x) ==
  BAdd(RoundDouble(BNorm(100 * x[1], 100 * x[2], 100 * x[3])), FHalf)[1]
    \div LimbBase

\* ------------------------------------------------------------ colour math
HexDigits == <<"0", "1", "2", "3", "4", "5", "6", "7",
               "8", "9", "a", "b", "c", "d", "e", "f">>

\* c.toString(16).padStart(2, "0") for a byte c.
Hex2(c) == <<HexDigits[(c \div 16) + 1], HexDigits[(c % 16) + 1]>>

toHex(r, g, b) == <<"#">> \o Hex2(r) \o Hex2(g) \o Hex2(b)

\* rgbToHsl on the average colour (sr/n, sg/n, sb/n), n > 0: saturation and
\* lightness in percent as exact fractions.  Hue is computed by the code but
\* read by nothing that is modelled here.
rgbToHsl(sr, sg, sb, n) ==
  LET max == Max2(sr, Max2(sg, sb))
      min == Min2(sr, Min2(sg, sb))
      d == max - min
      full == ByteMax * n
      l == [num |-> 100 * (max + min), den |-> 2 * full]
      s == IF max = min THEN [num |-> 0, den |-> 1]
           ELSE IF max + min > full
                THEN [num |-> 100 * d, den |-> 2 * full - max - min]
                ELSE [num |-> 100 * d, den |-> max + min]
  IN [s |-> s, l |-> l]

\* fast quantization key: r >> 4, g >> 4, b >> 4
qkey(r, g, b) == <<r \div 16, g \div 16, b \div 16>>

\* ------------------------------------------------------- region statistics
Luma(r, g, b) == LumaR * r + LumaG * g + LumaB * b

\* buckets.set(key, (buckets.get(key) || 0) + 1) on an insertion-ordered Map.
BucketAdd(buckets, key) ==
  IF \E i \in 1..Len(buckets) : buckets[i].key = key
  THEN [i \in 1..Len(buckets) |->
          IF buckets[i].key = key
          THEN [buckets[i] EXCEPT !.count = @ + 1]
          ELSE buckets[i]]
  ELSE Append(buckets, [key |-> key, count |-> 1])

Acc0 == [pxCount |-> 0, sumR |-> 0, sumG |-> 0, sumB |-> 0, sumL |-> 0,
         minL |-> ByteMax * LumaScale, maxL |-> 0,
         veryDark |-> 0, veryLight |-> 0, buckets |-> <<>>]

\* JavaScript values that are not objects here: undefined, or a number.
Undefined == [undefined |-> TRUE]
Number(n) == [number |-> n]

\* !v
Falsy(v) == v = Undefined \/ v = Number(0)

\* mask[i], the property named i of the mask object itself.  The masks of
\* the component are ImageData objects, whose properties are width, height and
\* data: a property with an integer name reads undefined.
MaskProperty(mask, i) == Undefined

\* The body of the inner loop of computeStats for the pixel at (x, y).
ScanPixelBody(imageData, mask, x, y, acc) ==
  LET idx == (y * imageData.width + x) * 4
  IN IF mask # Null /\ Falsy(MaskProperty(mask, idx + 3))
     THEN acc
     ELSE LET r == imageData.data[idx + 1]
              g == imageData.data[idx + 1 + 1]
              b == imageData.data[idx + 2 + 1]
              l == Luma(r, g, b)
          IN [pxCount |-> acc.pxCount + 1,
              sumR |-> acc.sumR + r, sumG |-> acc.sumG + g,
              sumB |-> acc.sumB + b, sumL |-> acc.sumL + l,
              minL |-> IF l < acc.minL THEN l ELSE acc.minL,
              maxL |-> IF l > acc.maxL THEN l ELSE acc.maxL,
              veryDark |-> acc.veryDark
                           + (IF l < DarkLimit * LumaScale THEN 1 ELSE 0),
              veryLight |-> acc.veryLight
                            + (IF l > LightLimit * LumaScale THEN 1 ELSE 0),
              buckets |-> BucketAdd(acc.buckets, qkey(r, g, b))]

ScanPixel(imageData, mask, x, y, acc) ==
  ScanPixelBody(imageData, mask, x, y, acc)

RECURSIVE ScanFrom(_, _, _, _, _)
\* for (y ...) for (x ...): the two loops from position (x, y) on.
ScanFrom(imageData, mask, x, y, acc) ==
  IF y >= imageData.height THEN acc
  ELSE IF x >= imageData.width
       THEN ScanFrom(imageData, mask, 0, y + 1, acc)
       ELSE ScanFrom(imageData, mask, x + 1, y,
                     ScanPixel(imageData, mask, x, y, acc))

RECURSIVE InsertDescUnstable(_, _)
\* Mutant: an entry goes before the entries of equal count.
InsertDescUnstable(sorted, e) ==
  IF sorted = <<>> THEN <<e>>
  ELSE IF Head(sorted).count > e.count
       THEN <<Head(sorted)>> \o InsertDescUnstable(Tail(sorted), e)
       ELSE <<e>> \o sorted

RECURSIVE InsertDesc(_, _)
\* Place e in a list sorted by descending count, after every entry whose
\* count is not smaller: the stable order of sort((a, b) => b[1] - a[1]).
InsertDesc(sorted, e) ==
  IF sorted = <<>> THEN <<e>>
  ELSE IF Head(sorted).count >= e.count
       THEN <<Head(sorted)>> \o InsertDesc(Tail(sorted), e)
       ELSE <<e>> \o sorted

RECURSIVE SortDesc(_)
SortDesc(entries) ==
  IF entries = <<>> THEN <<>>
  ELSE InsertDesc(SortDesc(SubSeq(entries, 1, Len(entries) - 1)),
                  entries[Len(entries)])

\* One dominant swatch from a [key, count] entry.
Swatch(e, pxCount) ==
  LET r == e.key[1] * 16 + 8
      g == e.key[2] * 16 + 8
      b == e.key[3] * 16 + 8
  IN [rgb |-> [r |-> r, g |-> g, b |-> b], hex |-> toHex(r, g, b),
      ratio |-> FDiv(e.count, pxCount)]

\* Mutant: the sorted table is not cut to TopN entries.
TopSwatchesUncut(buckets, pxCount) ==
  LET sorted == SortDesc(buckets)
  IN [i \in 1..Len(sorted) |-> Swatch(sorted[i], pxCount)]

TopSwatches(buckets, pxCount) ==
  LET sorted == SortDesc(buckets)
      top == SubSeq(sorted, 1, Min2(TopN, Len(sorted)))
  IN [i \in 1..Len(top) |-> Swatch(top[i], pxCount)]

\* Mutant: the under-exposed test comes first.
ExposureHintDarkFirst(veryLight, veryDark, pxCount) ==
  IF BLess(FQuarter, FDiv(veryDark, pxCount)) THEN "slightly under-exposed"
  ELSE IF BLess(FQuarter, FDiv(veryLight, pxCount)) THEN "slightly over-exposed"
  ELSE "balanced exposure"

ExposureHint(veryLight, veryDark, pxCount) ==
  IF BLess(FQuarter, FDiv(veryLight, pxCount)) THEN "slightly over-exposed"
  ELSE IF BLess(FQuarter, FDiv(veryDark, pxCount)) THEN "slightly under-exposed"
  ELSE "balanced exposure"

\* Mutant: the "moody & bold" test comes before the "classic & sharp" test.
VibeMoodyFirst(avgS, avgL, contrast) ==
  IF avgS.num > 45 * avgS.den /\ avgL.num > 60 * avgL.den
  THEN "vibrant & playful"
  ELSE IF avgL.num < 35 * avgL.den THEN "moody & bold"
  ELSE IF avgS.num < 20 * avgS.den /\ contrast > 140 * LumaScale
  THEN "classic & sharp"
  ELSE "clean & minimal"

\* contrast is the unrounded maxL - minL, scaled by LumaScale.
Vibe(avgS, avgL, contrast) ==
  IF avgS.num > 45 * avgS.den /\ avgL.num > 60 * avgL.den
  THEN "vibrant & playful"
  ELSE IF avgS.num < 20 * avgS.den /\ contrast > 140 * LumaScale
  THEN "classic & sharp"
  ELSE IF avgL.num < 35 * avgL.den THEN "moody & bold"
  ELSE "clean & minimal"

computeStats(imageData, mask) ==
  LET acc == ScanFrom(imageData, mask, 0, 0, Acc0)
      n == acc.pxCount
      contrast == acc.maxL - acc.minL
      hsl == rgbToHsl(acc.sumR, acc.sumG, acc.sumB, n)
  IN IF n = 0 THEN Null
     ELSE [pxCount |-> n,
           avgHex |-> toHex(Round(acc.sumR, n), Round(acc.sumG, n),
                            Round(acc.sumB, n)),
           dominant |-> TopSwatches(acc.buckets, n),
           contrast |-> Round(contrast, LumaScale),
           exposureHint |-> ExposureHint(acc.veryLight, acc.veryDark, n),
           vibe |-> Vibe(hsl.s, hsl.l, contrast)]

\* ------------------------------------------------- segmentation partitioner
\* mask = createImageData(w, h), then the alpha of pixel i set from
\* segmentation.data[i]; a write past the end of mask.data has no effect.
BuildMask(w, h, seg) ==
  [width |-> w, height |-> h,
   data |-> [j \in 1..(4 * w * h) |->
               IF (j - 1) % 4 = 3 /\ ((j - 1) \div 4) + 1 <= Len(seg)
                  /\ seg[((j - 1) \div 4) + 1] = 1
               THEN ByteMax ELSE 0]]

\* The loop body of the bounding-box scan for pixel (x, y).
BBoxPixel(mask, x, y, box) ==
  IF mask.data[(y * mask.width + x) * 4 + 3 + 1] # 0
  THEN [minX |-> Min2(x, box.minX), minY |-> Min2(y, box.minY),
        maxX |-> Max2(x, box.maxX), maxY |-> Max2(y, box.maxY), any |-> TRUE]
  ELSE box

RECURSIVE BBoxFrom(_, _, _, _)
BBoxFrom(mask, x, y, box) ==
  IF y >= mask.height THEN box
  ELSE IF x >= mask.width THEN BBoxFrom(mask, 0, y + 1, box)
       ELSE BBoxFrom(mask, x + 1, y, BBoxPixel(mask, x, y, box))

BBox(mask) ==
  BBoxFrom(mask, 0, 0, [minX |-> mask.width, minY |-> mask.height,
                        maxX |-> 0, maxY |-> 0, any |-> FALSE])

MidY(minY, maxY) == (minY + maxY) \div 2

\* Mutant: the midline row goes to the lower part.
InTopStrict(y, midY) == y < midY

\* if (y <= midY) topMask ... else bottomMask ...
InTop(y, midY) == y <= midY

\* The upper (top = TRUE) or lower sub-mask of a mask with a foreground pixel.
SubMask(mask, midY, top) ==
  [width |-> mask.width, height |-> mask.height,
   data |-> [j \in 1..Len(mask.data) |->
               IF (j - 1) % 4 = 3 /\ mask.data[j] # 0
                  /\ (InTop(((j - 1) \div 4) \div mask.width, midY) <=> top)
               THEN ByteMax ELSE 0]]

\* ---------------------------------------------------------- global extras
RECURSIVE LumaScan(_, _, _)
\* for (i = 0; i < data.length; i += 4): sum, count, min and max of luma.
LumaScan(data, i, acc) ==
  IF i >= Len(data) THEN acc
  ELSE LET l == Luma(data[i + 1], data[i + 2], data[i + 3])
       IN LumaScan(data, i + 4,
                   [sumL |-> acc.sumL + l, count |-> acc.count + 1,
                    minL |-> IF l < acc.minL THEN l ELSE acc.minL,
                    maxL |-> IF l > acc.maxL THEN l ELSE acc.maxL])

\* Mutant: the smallest luma starts at 0 instead of 255.
AddExtrasFromZero(stats, imageData) ==
  IF stats = Null THEN Null
  ELSE LET acc == LumaScan(imageData.data, 0,
                           [sumL |-> 0, count |-> 0, minL |-> 0, maxL |-> 0])
       IN [pxCount |-> stats.pxCount, avgHex |-> stats.avgHex,
           dominant |-> stats.dominant,
           contrast |-> Round(acc.maxL - acc.minL, LumaScale),
           exposureHint |-> stats.exposureHint, vibe |-> stats.vibe,
           brightness |-> Round(acc.sumL, acc.count * LumaScale)]

\* globalStats.brightness = ...; globalStats.contrast = ...
AddExtras(stats, imageData) ==
  IF stats = Null THEN Null
  ELSE LET acc == LumaScan(imageData.data, 0,
                           [sumL |-> 0, count |-> 0,
                            minL |-> ByteMax * LumaScale, maxL |-> 0])
       IN [pxCount |-> stats.pxCount, avgHex |-> stats.avgHex,
           dominant |-> stats.dominant,
           contrast |-> Round(acc.maxL - acc.minL, LumaScale),
           exposureHint |-> stats.exposureHint, vibe |-> stats.vibe,
           brightness |-> Round(acc.sumL, acc.count * LumaScale)]

\* ------------------------------------------------------------ finding filter
\* Scores are in hundredths.
ScoreLimit == 45

interesting ==
  {"tie", "backpack", "handbag", "umbrella", "suitcase", "sports ball",
   "skateboard", "bottle", "book", "cell phone", "laptop"}

\* Mutant: a score equal to the limit passes.
KeepsAtLimit(d) == d.class \in interesting /\ d.score >= ScoreLimit

Keeps(d) == d.class \in interesting /\ d.score > ScoreLimit

RECURSIVE FilterFindings(_)
\* detections.filter(...).map((d) => ({ class: d.class, score: d.score }))
FilterFindings(detections) ==
  IF detections = <<>> THEN <<>>
  ELSE LET d == Head(detections)
       IN (IF Keeps(d) THEN <<[class |-> d.class, score |-> d.score]>>
           ELSE <<>>) \o FilterFindings(Tail(detections))

\* -------------------------------------------------------- report synthesizer
UpperCase == <<"A", "B", "C", "D", "E", "F", "G", "H", "I", "J", "K", "L", "M",
               "N", "O", "P", "Q", "R", "S", "T", "U", "V", "W", "X", "Y", "Z">>
LowerCase == <<"a", "b", "c", "d", "e", "f", "g", "h", "i", "j", "k", "l", "m",
               "n", "o", "p", "q", "r", "s", "t", "u", "v", "w", "x", "y", "z">>

\* The case folding of the i flag, on ASCII letters.
Fold(c) ==
  IF \E i \in 1..26 : UpperCase[i] = c
  THEN LowerCase[CHOOSE i \in 1..26 : UpperCase[i] = c]
  ELSE c

\* text contains word, ignoring case.
Contains(text, word) ==
  \E i \in 0..(Len(text) - Len(word)) :
    \A j \in 1..Len(word) : Fold(text[i + j]) = Fold(word[j])

W_INTERVIEW == <<"i", "n", "t", "e", "r", "v", "i", "e", "w">>
W_OFFICE == <<"o", "f", "f", "i", "c", "e">>
W_FORMAL == <<"f", "o", "r", "m", "a", "l">>
W_PRESENTATION == <<"p", "r", "e", "s", "e", "n", "t", "a", "t", "i", "o", "n">>
W_DATE == <<"d", "a", "t", "e">>
W_PARTY == <<"p", "a", "r", "t", "y">>
W_CASUAL == <<"c", "a", "s", "u", "a", "l">>
W_HANGOUT == <<"h", "a", "n", "g", "o", "u", "t">>

FormalWords == {W_INTERVIEW, W_OFFICE, W_FORMAL, W_PRESENTATION}
CasualWords == {W_DATE, W_PARTY, W_CASUAL, W_HANGOUT}

\* /interview|office|formal|presentation/i.test(userPrompt)
TestAny(text, words) == \E word \in words : Contains(text, word)

\* Mutant: the casual words are tried before the formal ones.
OccasionFitCasualFirst(globalStats, userPrompt) ==
  IF TestAny(userPrompt, CasualWords)
  THEN (IF globalStats.brightness > 90
        THEN "Great for casual/social settings."
        ELSE "Add a lighter piece for approachability.")
  ELSE IF TestAny(userPrompt, FormalWords)
  THEN (IF globalStats.contrast > 110 THEN "Good for formal/semi-formal."
        ELSE "Might need sharper contrast for formal.")
  ELSE "Versatile - tweak with layers/accessories."

OccasionFit(globalStats, userPrompt) ==
  IF TestAny(userPrompt, FormalWords)
  THEN (IF globalStats.contrast > 110 THEN "Good for formal/semi-formal."
        ELSE "Might need sharper contrast for formal.")
  ELSE IF TestAny(userPrompt, CasualWords)
  THEN (IF globalStats.brightness > 90
        THEN "Great for casual/social settings."
        ELSE "Add a lighter piece for approachability.")
  ELSE "Versatile - tweak with layers/accessories."

Dash == "-"

\* domToStr: the hex and whole percentage of each swatch, or "-".
domToStr(st) ==
  IF st = Null THEN Dash
  ELSE [i \in 1..Len(st.dominant) |->
          [hex |-> st.dominant[i].hex,
           percent |-> FPercent(st.dominant[i].ratio)]]

\* The document of buildMarkdown, as the values it substitutes, in order.
buildMarkdown(r, userPrompt) ==
  [vibe |-> r.globalStats.vibe,
   context |-> userPrompt,
   exposure |-> r.globalStats.exposureHint,
   avgHex |-> r.globalStats.avgHex,
   dominant |-> domToStr(r.globalStats),
   top |-> [dominant |-> domToStr(r.topStats),
            contrast |-> IF r.topStats = Null THEN Dash
                         ELSE r.topStats.contrast,
            vibe |-> IF r.topStats = Null THEN Dash ELSE r.topStats.vibe],
   bottom |-> [dominant |-> domToStr(r.bottomStats),
               contrast |-> IF r.bottomStats = Null THEN Dash
                            ELSE r.bottomStats.contrast,
               vibe |-> IF r.bottomStats = Null THEN Dash
                        ELSE r.bottomStats.vibe],
   accessories |-> IF Len(r.cocoFindings) > 0
                   THEN [i \in 1..Len(r.cocoFindings) |->
                           [class |-> r.cocoFindings[i].class,
                            percent |-> r.cocoFindings[i].score]]
                   ELSE "None detected",
   occasion |-> OccasionFit(r.globalStats, userPrompt)]

\* ------------------------------------------------------------------ inputs
Black == [r |-> 0, g |-> 0, b |-> 0]
White == [r |-> 255, g |-> 255, b |-> 255]
Gray == [r |-> 128, g |-> 128, b |-> 128]
OffGray == [r |-> 141, g |-> 140, b |-> 140]
Pink == [r |-> 255, g |-> 128, b |-> 128]
Blue == [r |-> 0, g |-> 0, b |-> 255]
Charcoal == [r |-> 40, g |-> 40, b |-> 40]

\* Gray and OffGray fall in the same colour bucket.
Palette == {Black, White, Gray, OffGray, Pink}
\* TopN + 1 colours in pairwise different buckets.
WidePalette == {Black, White, OffGray, Pink, Blue, Charcoal}

RowPalette == {Black, White, Pink}

\* The RGBA bytes of a row-major list of pixels, as getImageData returns them.
Flatten(pixels) ==
  [i \in 1..(4 * Len(pixels)) |->
     LET p == pixels[((i - 1) \div 4) + 1]
         c == (i - 1) % 4
     IN IF c = 0 THEN p.r ELSE IF c = 1 THEN p.g
        ELSE IF c = 2 THEN p.b ELSE ByteMax]

ImageOf(w, h, pixels) == [width |-> w, height |-> h, data |-> Flatten(pixels)]

\* A mask ImageData with the given alpha per pixel (createImageData zeroes
\* the other channels).
MaskOf(w, h, alphas) ==
  [width |-> w, height |-> h,
   data |-> [i \in 1..(4 * Len(alphas)) |->
               IF (i - 1) % 4 = 3 THEN alphas[((i - 1) \div 4) + 1] ELSE 0]]

Dims(maxPx) == {d \in (0..maxPx) \X (0..maxPx) : d[1] * d[2] <= maxPx}

\* Mask alphas: 0 excludes a pixel, any other byte includes it.
Alphas == {0, 1}

\* Every colour of WidePalette occurs in px: more buckets than the dominant
\* list can hold.
AllColours(px) == \A c \in WidePalette : \E i \in 1..Len(px) : px[i] = c

\* Grays whose luma the doubles of the code represent exactly.
Gray30 == [r |-> 30, g |-> 30, b |-> 30]
Gray140 == [r |-> 140, g |-> 140, b |-> 140]
Gray141 == [r |-> 141, g |-> 141, b |-> 141]
Gray225 == [r |-> 225, g |-> 225, b |-> 225]

GrayCycle == <<Gray30, Gray225, Gray141, Gray140>>
FitPalette == {Gray30, Gray140, Gray141, Gray225}

\* The w * h image whose pixels run through GrayCycle in row-major order.
CycleImage(w, h) ==
  ImageOf(w, h, [k \in 1..(w * h) |-> GrayCycle[((k - 1) % Len(GrayCycle)) + 1]])

\* One image of each size up to MaxW by MaxH.
SizedImages == {CycleImage(d[1], d[2]) : d \in (1..MaxW) \X (1..MaxH)}

\* Every one-row image of at most MaxW + 1 pixels over FitPalette.
RowImages ==
  UNION {{ImageOf(w, 1, px) : px \in [1..w -> FitPalette]} : w \in 1..(MaxW + 1)}

Ones(n) == [k \in 1..n |-> 1]

\* What segmentPerson may resolve to for an image: with "all", every array of
\* 0s and 1s of the image's size, one of 2s, and arrays one element short and
\* one element long; otherwise the all-foreground array of the image's size.
SegsFor(mode, img) ==
  LET n == img.width * img.height
  IN IF mode = "all"
     THEN [1..n -> {0, 1}] \cup {[k \in 1..n |-> 2], Ones(n - 1), Ones(n + 1)}
     ELSE {Ones(n)}

\* Detections: class, score in hundredths, bounding box.
Det(class, score) == [class |-> class, score |-> score, bbox |-> <<0, 0, 1, 1>>]

DetSamples ==
  {Det("tie", 90), Det("tie", ScoreLimit), Det("laptop", ScoreLimit + 1),
   Det("person", 95), Det("book", 30)}

DetLists == UNION {[1..n -> DetSamples] : n \in 0..MaxDet}

P_OFFICE == <<"o", "f", "f", "i", "c", "e", " ", "i", "n", "t", "e", "r", "v", "i", "e", "w">>
P_PARTY == <<"F", "o", "r", "m", "a", "l", " ", "p", "a", "r", "t", "y">>
P_DATE == <<"f", "i", "r", "s", "t", " ", "d", "a", "t", "e">>
P_HANGOUT == <<"H", "A", "N", "G", "O", "U", "T">>
P_GYM == <<"g", "y", "m", " ", "d", "a", "y">>
P_UPDATE == <<"a", "n", " ", "u", "p", "d", "a", "t", "e">>

\* Contexts the user may type, with what a reader finds in them: a word of the
\* formal group, a word of the casual group.
PromptSamples ==
  {[text |-> P_OFFICE, formal |-> TRUE, casual |-> FALSE],
   [text |-> P_PARTY, formal |-> TRUE, casual |-> TRUE],
   [text |-> P_DATE, formal |-> FALSE, casual |-> TRUE],
   [text |-> P_HANGOUT, formal |-> FALSE, casual |-> TRUE],
   [text |-> P_GYM, formal |-> FALSE, casual |-> FALSE],
   [text |-> P_UPDATE, formal |-> FALSE, casual |-> TRUE]}

Prompts == {s.text : s \in PromptSamples}

\* A file the browser cannot decode (the page's note on HEIC/HEIF).
Undecodable == [undecodable |-> TRUE]

\* The input sets of a specification.
CfgSeg == [images |-> SizedImages \cup {Undecodable}, segs |-> "all",
           dets |-> {<<>>, <<Det("tie", 90)>>}, prompts |-> {P_GYM}]
CfgFind == [images |-> {CycleImage(1, 2)}, segs |-> "whole",
            dets |-> DetLists, prompts |-> {P_GYM}]
CfgFit == [images |-> RowImages, segs |-> "whole",
           dets |-> {<<>>}, prompts |-> Prompts]
CfgLive == [images |-> {CycleImage(1, 2), Undecodable}, segs |-> "whole",
            dets |-> {<<>>, <<Det("tie", 90)>>}, prompts |-> {P_GYM, P_OFFICE}]

\* ------------------------------------------------------------------- state
\* The argument and the result of a call of computeStats on its own.
VARIABLES sIn, sOut

\* The component: the loader effect's flag and position, the model handles,
\* the React state, the pending FileReader, the hidden img element's request,
\* and the position, locals and pending error of the analysis in flight.
VARIABLES isMounted, lpc, modelStatus, modelsLoading, bodyPixRef, cocoRef,
          prompt, imageFile, imagePreview, reader, imgState, loading, result,
          apc, run, err

svars == <<sIn, sOut>>
lvars == <<isMounted, lpc, modelStatus, modelsLoading, bodyPixRef, cocoRef>>
uvars == <<prompt, imageFile, imagePreview, reader, imgState>>
avars == <<loading, result, apc, run, err>>
vars == <<svars, lvars, uvars, avars>>

Pending == [pending |-> TRUE]

NoResult == [kind |-> "empty"]

\* The locals of analyze before its first statement.
NoRun ==
  [stage |-> "none", imageData |-> Null, segmentation |-> <<>>, mask |-> Null,
   topMask |-> Null, bottomMask |-> Null, globalStats |-> Null,
   topStats |-> Null, bottomStats |-> Null, detections |-> <<>>,
   cocoFindings |-> <<>>]

\* The component after its first render, the loader at its first await.
InitApp ==
  /\ isMounted = TRUE
  /\ lpc = "tf"
  /\ modelStatus = "Loading TensorFlow backend"
  /\ modelsLoading = TRUE
  /\ bodyPixRef = Null
  /\ cocoRef = Null
  /\ prompt = <<>>
  /\ imageFile = Null
  /\ imagePreview = Null
  /\ reader = Null
  /\ imgState = "none"
  /\ loading = FALSE
  /\ result = NoResult
  /\ apc = "idle"
  /\ run = NoRun
  /\ err = ""

\* ------------------------------------------------------------- model loader
\* An await of the loader resolves: the backend, then BodyPix, then COCO-SSD,
\* after which both handles are stored unless the component has unmounted.
\* (A loader that stored the BodyPix handle as soon as it had loaded.)
LoadStepStoresEarly ==
  /\ lpc \in {"tf", "bodypix", "coco"}
  /\ IF lpc = "tf"
     THEN /\ lpc' = "bodypix"
          /\ modelStatus' = "Loading BodyPix (person segmentation)"
          /\ UNCHANGED <<modelsLoading, bodyPixRef, cocoRef>>
     ELSE IF lpc = "bodypix"
     THEN /\ lpc' = "coco"
          /\ modelStatus' = "Loading COCO-SSD (object detection)"
          /\ bodyPixRef' = [model |-> "bodypix"]
          /\ UNCHANGED <<modelsLoading, cocoRef>>
     ELSE /\ lpc' = "done"
          /\ IF isMounted
             THEN /\ bodyPixRef' = [model |-> "bodypix"]
                  /\ cocoRef' = [model |-> "coco-ssd"]
                  /\ modelsLoading' = FALSE
                  /\ modelStatus' = "Models ready"
             ELSE UNCHANGED <<modelStatus, modelsLoading, bodyPixRef, cocoRef>>
  /\ UNCHANGED <<isMounted, svars, uvars, avars>>

LoadStep ==
  /\ lpc \in {"tf", "bodypix", "coco"}
  /\ IF lpc = "tf"
     THEN /\ lpc' = "bodypix"
          /\ modelStatus' = "Loading BodyPix (person segmentation)"
          /\ UNCHANGED <<modelsLoading, bodyPixRef, cocoRef>>
     ELSE IF lpc = "bodypix"
     THEN /\ lpc' = "coco"
          /\ modelStatus' = "Loading COCO-SSD (object detection)"
          /\ UNCHANGED <<modelsLoading, bodyPixRef, cocoRef>>
     ELSE /\ lpc' = "done"
          /\ IF isMounted
             THEN /\ bodyPixRef' = [model |-> "bodypix"]
                  /\ cocoRef' = [model |-> "coco-ssd"]
                  /\ modelsLoading' = FALSE
                  /\ modelStatus' = "Models ready"
             ELSE UNCHANGED <<modelStatus, modelsLoading, bodyPixRef, cocoRef>>
  /\ UNCHANGED <<isMounted, svars, uvars, avars>>

\* An await of the loader rejects: the catch block.
LoadFail ==
  /\ lpc \in {"tf", "bodypix", "coco"}
  /\ lpc' = "failed"
  /\ IF isMounted
     THEN /\ modelStatus' = "Failed to load models. Check console."
          /\ modelsLoading' = FALSE
     ELSE UNCHANGED <<modelStatus, modelsLoading>>
  /\ UNCHANGED <<isMounted, bodyPixRef, cocoRef, svars, uvars, avars>>

\* The effect's cleanup.
Unmount ==
  /\ isMounted
  /\ isMounted' = FALSE
  /\ UNCHANGED <<lpc, modelStatus, modelsLoading, bodyPixRef, cocoRef,
                 svars, uvars, avars>>

\* ------------------------------------------------------------------ handlers
\* The user chooses one file and types the context before the first
\* submission, then submits any number of times; one analysis runs at a time
\* (the submit button is disabled while loading).
Editable == isMounted /\ apc = "idle" /\ result = NoResult

\* handleImageChange with a file chosen; the images are at most 640 on each
\* side, so the canvas takes the image's own size.
handleImageChange(cfg) ==
  /\ Editable
  /\ imageFile = Null
  /\ \E file \in cfg.images :
       /\ imageFile' = file
       /\ reader' = file
  /\ UNCHANGED <<prompt, imagePreview, imgState, svars, lvars, avars>>

\* reader.onloadend: the preview is set and the render gives the hidden img
\* its src, which starts the element's request.
ReaderLoadEnd ==
  /\ reader # Null
  /\ imagePreview' = reader
  /\ reader' = Null
  /\ imgState' = "loading"
  /\ UNCHANGED <<prompt, imageFile, svars, lvars, avars>>

\* The hidden img element's request ends: the image becomes completely
\* available and its load event runs the onload handler analyze may have
\* set, or the request becomes broken and only an error event fires, for
\* which analyze sets no handler.
ImgSettle ==
  /\ imgState = "loading"
  /\ IF imagePreview = Undecodable
     THEN imgState' = "broken" /\ apc' = apc
     ELSE /\ imgState' = "complete"
          /\ apc' = IF apc = "onload" THEN "image" ELSE apc
  /\ UNCHANGED <<prompt, imageFile, imagePreview, reader, loading, result,
                 run, err, svars, lvars>>

\* The prompt input's onChange.
SetPrompt(cfg) ==
  /\ Editable
  /\ \E text \in cfg.prompts : prompt' = text
  /\ UNCHANGED <<imageFile, imagePreview, reader, imgState, svars, lvars,
                 avars>>

\* handleSubmit up to its await, with analyze up to its first await or throw.
handleSubmit ==
  /\ isMounted
  /\ apc = "idle"
  /\ IF imageFile = Null \/ prompt = <<>>
     THEN UNCHANGED avars
     ELSE /\ loading' = TRUE
          /\ result' = NoResult
          /\ run' = NoRun
          /\ IF imagePreview = Null
             THEN apc' = "rejected" /\ err' = "No image preview"
             ELSE /\ apc' = IF imgState = "loading" THEN "onload"
                                                      ELSE "image"
                  /\ err' = ""
  /\ UNCHANGED <<svars, lvars, uvars>>

\* The submit button's disabled attribute: a disabled default button blocks
\* the form's submission, so the page runs handleSubmit only when it is
\* enabled.
SubmitEnabled ==
  ~(loading \/ modelsLoading \/ imageFile = Null \/ prompt = <<>>)

\* The user submits the form.
ClickSubmit == SubmitEnabled /\ handleSubmit

\* if (!bp) throw ...
HasModel(ref) == ref # Null

\* analyze after the image promise has resolved: drawImage throws on a broken
\* image; otherwise the canvas is drawn and read, and segmentPerson is called
\* if there is a model.
ImageReady ==
  /\ apc = "image"
  /\ IF imgState = "broken"
     THEN /\ run' = run
          /\ apc' = "rejected"
          /\ err' = "InvalidStateError"
     ELSE /\ run' = [run EXCEPT !.stage = "image", !.imageData = imagePreview]
          /\ IF HasModel(bodyPixRef)
             THEN apc' = "segment" /\ err' = err
             ELSE apc' = "rejected" /\ err' = "BodyPix not ready"
  /\ UNCHANGED <<loading, result, svars, lvars, uvars>>

\* The locals of analyze from the mask to the three profiles.
Partition(imageData, seg) ==
  LET mask == BuildMask(imageData.width, imageData.height, seg)
      box == BBox(mask)
      midY == MidY(box.minY, box.maxY)
      topMask == IF box.any THEN SubMask(mask, midY, TRUE) ELSE Null
      bottomMask == IF box.any THEN SubMask(mask, midY, FALSE) ELSE Null
  IN [stage |-> "split", imageData |-> imageData, segmentation |-> seg,
      mask |-> mask, topMask |-> topMask, bottomMask |-> bottomMask,
      globalStats |-> AddExtras(computeStats(imageData, Null), imageData),
      topStats |-> IF topMask # Null THEN computeStats(imageData, topMask)
                   ELSE Null,
      bottomStats |-> IF bottomMask # Null
                      THEN computeStats(imageData, bottomMask) ELSE Null,
      detections |-> <<>>, cocoFindings |-> <<>>]

\* segmentPerson resolves: analyze up to the call of detect.
SegmentReturn(cfg) ==
  /\ apc = "segment"
  /\ \E seg \in SegsFor(cfg.segs, run.imageData) :
       run' = Partition(run.imageData, seg)
  /\ IF HasModel(cocoRef)
     THEN apc' = "detect" /\ err' = err
     ELSE apc' = "rejected" /\ err' = "COCO-SSD not ready"
  /\ UNCHANGED <<loading, result, svars, lvars, uvars>>

\* detect resolves: analyze filters the detections and returns.
DetectReturn(cfg) ==
  /\ apc = "detect"
  /\ \E detections \in cfg.dets :
       run' = [run EXCEPT !.stage = "found", !.detections = detections,
                          !.cocoFindings = FilterFindings(detections)]
  /\ apc' = "resolved"
  /\ UNCHANGED <<loading, result, err, svars, lvars, uvars>>

\* handleSubmit after analyze has returned.
Resume ==
  /\ apc = "resolved"
  /\ result' = [kind |-> "markdown", md |-> buildMarkdown(run, prompt)]
  /\ loading' = FALSE
  /\ apc' = "idle"
  /\ UNCHANGED <<run, err, svars, lvars, uvars>>

\* handleSubmit after analyze has thrown.
Catch ==
  /\ apc = "rejected"
  /\ result' = [kind |-> "error", message |-> err]
  /\ loading' = FALSE
  /\ apc' = "idle"
  /\ UNCHANGED <<run, err, svars, lvars, uvars>>

Init == InitApp /\ sIn = Null /\ sOut = Pending

NextWith(cfg) ==
  \/ LoadStep
  \/ LoadFail
  \/ handleImageChange(cfg)
  \/ ReaderLoadEnd
  \/ ImgSettle
  \/ SetPrompt(cfg)
  \/ ClickSubmit
  \/ ImageReady
  \/ SegmentReturn(cfg)
  \/ DetectReturn(cfg)
  \/ Resume
  \/ Catch

\* Segmentations vary, files decode or not, and the component may unmount.
Next == NextWith(CfgSeg) \/ Unmount
Spec == Init /\ [][Next]_vars

\* Detections vary.
NextFind == NextWith(CfgFind)
SpecFind == Init /\ [][NextFind]_vars

\* Images and contexts vary.
NextFit == NextWith(CfgFit)
SpecFit == Init /\ [][NextFit]_vars

\* Files that decode and files that do not, with the scheduling the runtime
\* guarantees: a started read, image request, model load or model call ends,
\* and a settled promise's continuation runs. Nothing obliges the user to
\* act, and the component stays mounted.
NextLive == NextWith(CfgLive)
Fairness ==
  /\ WF_vars(LoadStep \/ LoadFail)
  /\ WF_vars(ReaderLoadEnd)
  /\ WF_vars(ImgSettle)
  /\ WF_vars(ImageReady)
  /\ WF_vars(SegmentReturn(CfgLive))
  /\ WF_vars(DetectReturn(CfgLive))
  /\ WF_vars(Resume)
  /\ WF_vars(Catch)
SpecLive == Init /\ [][NextLive]_vars /\ Fairness

\* ------------------------------------------- computeStats as a pure function
\* Every image of at most MaxPx pixels over Palette, with no mask or with any
\* mask over Alphas.
InitSmall ==
  \E d \in Dims(MaxPx) :
    \E px \in [1..(d[1] * d[2]) -> Palette] :
      /\ \/ sIn = [imageData |-> ImageOf(d[1], d[2], px), mask |-> Null]
         \/ \E a \in [1..(d[1] * d[2]) -> Alphas] :
              sIn = [imageData |-> ImageOf(d[1], d[2], px),
                     mask |-> MaskOf(d[1], d[2], a)]
      /\ sOut = Pending

\* One-row images of WideLen pixels that use every colour of WidePalette.
InitWide ==
  \E px \in [1..WideLen -> WidePalette] :
    /\ AllColours(px)
    /\ sIn = [imageData |-> ImageOf(WideLen, 1, px), mask |-> Null]
    /\ sOut = Pending

\* One-row images of RowLen pixels over RowPalette.
InitRow ==
  \E px \in [1..RowLen -> RowPalette] :
    /\ sIn = [imageData |-> ImageOf(RowLen, 1, px), mask |-> Null]
    /\ sOut = Pending

InitStats == (InitSmall \/ InitWide \/ InitRow) /\ InitApp

RunComputeStats ==
  /\ sOut = Pending
  /\ sOut' = computeStats(sIn.imageData, sIn.mask)
  /\ UNCHANGED <<sIn, lvars, uvars, avars>>

NextStats == RunComputeStats

SpecStats == InitStats /\ [][NextStats]_vars

\* ------------------------------------------------ what the claims speak of
\* The pixel numbers (y * width + x) an input includes: all of them without a
\* mask, those whose mask alpha is not 0 with one.
Included(in) ==
  {k \in 0..(in.imageData.width * in.imageData.height - 1) :
     in.mask = Null \/ in.mask.data[4 * k + 4] # 0}

PixelAt(in, k) ==
  [r |-> in.imageData.data[4 * k + 1], g |-> in.imageData.data[4 * k + 2],
   b |-> in.imageData.data[4 * k + 3]]

LumaAt(in, k) == LET p == PixelAt(in, k) IN Luma(p.r, p.g, p.b)

KeyAt(in, k) == LET p == PixelAt(in, k) IN qkey(p.r, p.g, p.b)

RECURSIVE SumOver(_, _, _)
\* The sum of channel ch over the pixels of S.
SumOver(in, S, ch) ==
  IF S = {} THEN 0
  ELSE LET k == CHOOSE x \in S : TRUE
       IN PixelAt(in, k)[ch] + SumOver(in, S \ {k}, ch)

StatsDone == sOut # Pending

\* ----------------------------------------------------------------------- C1
\* C1: computeStats returns null exactly when no pixel is included (the image
\* has no pixels, or a mask is present and every mask alpha is 0); otherwise
\* it returns a profile whose pxCount is the number of included pixels.
C1_NullIffNoIncludedPixel ==
  StatsDone =>
    LET n == Cardinality(Included(sIn))
    IN /\ (sOut = Null) <=> (n = 0)
       /\ n > 0 => (IF sOut = Null THEN FALSE ELSE sOut.pxCount = n)

\* A mask over a non-empty image excludes every pixel and the result is null.
C1_Witness ==
  /\ StatsDone
  /\ sIn.mask # Null
  /\ sIn.imageData.width * sIn.imageData.height > 1
  /\ Included(sIn) = {}
  /\ sOut = Null

\* ----------------------------------------------------------------------- C6
\* The label of the returned profile follows the first-match chain on the
\* fractions of very light and very dark included pixels.
ExposureByFirstMatch ==
    LET inc == Included(sIn)
        n == Cardinality(inc)
        light == Cardinality({k \in inc : LumaAt(sIn, k) > LightLimit * LumaScale})
        dark == Cardinality({k \in inc : LumaAt(sIn, k) < DarkLimit * LumaScale})
    IN /\ 4 * light > n => sOut.exposureHint = "slightly over-exposed"
       /\ (4 * light <= n /\ 4 * dark > n)
            => sOut.exposureHint = "slightly under-exposed"
       /\ (4 * light <= n /\ 4 * dark <= n)
            => sOut.exposureHint = "balanced exposure"

\* C6: every non-empty region gets exactly one exposure label by first match:
\* over-exposed when more than a quarter of the included pixels have luma above
\* 225, else under-exposed when more than a quarter have luma below 30, else
\* balanced; exactly a quarter triggers neither.
C6_ExposureFirstMatch ==
  (StatsDone /\ Included(sIn) # {}) =>
    /\ sOut # Null
    /\ ExposureByFirstMatch

\* The rule of C6 for the profiles computeStats returns.
C6_ExposureOfReturnedProfile ==
  (StatsDone /\ sOut # Null) => ExposureByFirstMatch

\* Four included pixels of which exactly one is very light and exactly one is
\* very dark: both fractions are exactly 0.25 and the label is balanced.
C6_Witness ==
  /\ StatsDone /\ sOut # Null
  /\ LET inc == Included(sIn)
     IN /\ Cardinality(inc) = 4
        /\ Cardinality({k \in inc : LumaAt(sIn, k) > LightLimit * LumaScale}) = 1
        /\ Cardinality({k \in inc : LumaAt(sIn, k) < DarkLimit * LumaScale}) = 1
  /\ sOut.exposureHint = "balanced exposure"

\* ----------------------------------------------------------------------- C5
\* The average colour of the included pixels as HSL, and their luma spread.
AvgHsl(in) ==
  LET inc == Included(in)
  IN rgbToHsl(SumOver(in, inc, "r"), SumOver(in, inc, "g"),
              SumOver(in, inc, "b"), Cardinality(inc))

MaxLuma(in) ==
  LET inc == Included(in)
  IN LumaAt(in, CHOOSE k \in inc : \A j \in inc : LumaAt(in, j) <= LumaAt(in, k))

MinLuma(in) ==
  LET inc == Included(in)
  IN LumaAt(in, CHOOSE k \in inc : \A j \in inc : LumaAt(in, j) >= LumaAt(in, k))

\* The precedence chain of the claim; contrast is in luma units * LumaScale.
VibeByPrecedence(hsl, contrast) ==
  CASE hsl.s.num > 45 * hsl.s.den /\ hsl.l.num > 60 * hsl.l.den
         -> "vibrant & playful"
    [] ~(hsl.s.num > 45 * hsl.s.den /\ hsl.l.num > 60 * hsl.l.den)
       /\ hsl.s.num < 20 * hsl.s.den /\ contrast > 140 * LumaScale
         -> "classic & sharp"
    [] ~(hsl.s.num > 45 * hsl.s.den /\ hsl.l.num > 60 * hsl.l.den)
       /\ ~(hsl.s.num < 20 * hsl.s.den /\ contrast > 140 * LumaScale)
       /\ hsl.l.num < 35 * hsl.l.den
         -> "moody & bold"
    [] OTHER -> "clean & minimal"

AllBlack(in) ==
  \A k \in Included(in) : PixelAt(in, k) = [r |-> 0, g |-> 0, b |-> 0]

\* C5: every non-empty region gets a profile whose vibe follows the precedence
\* chain evaluated on the profile's contrast value, the luma spread rounded to
\* an integer.
C5_VibeFromRoundedContrast ==
  (StatsDone /\ Included(sIn) # {}) =>
    /\ sOut # Null
    /\ sOut.vibe = VibeByPrecedence(AvgHsl(sIn), sOut.contrast * LumaScale)

\* What holds of the profiles computeStats returns: the vibe follows the
\* precedence chain evaluated on the unrounded luma spread (max luma minus min
\* luma); the profile's contrast is that spread rounded; an all-black region
\* has average #000000, contrast 0 and vibe "moody & bold".
C5_VibeFromUnroundedContrast ==
  (StatsDone /\ sOut # Null) =>
    /\ sOut.vibe = VibeByPrecedence(AvgHsl(sIn), MaxLuma(sIn) - MinLuma(sIn))
    /\ sOut.contrast = Round(MaxLuma(sIn) - MinLuma(sIn), LumaScale)
    /\ AllBlack(sIn) =>
         /\ sOut.avgHex = <<"#", "0", "0", "0", "0", "0", "0">>
         /\ sOut.contrast = 0
         /\ sOut.vibe = "moody & bold"

\* A dark, unsaturated region whose luma spread lies strictly between 140 and
\* 140.5: the profile's contrast is 140 and the vibe is "classic & sharp".
C5_Witness ==
  /\ StatsDone /\ sOut # Null
  /\ MaxLuma(sIn) - MinLuma(sIn) > 140 * LumaScale
  /\ sOut.contrast = 140
  /\ AvgHsl(sIn).l.num < 35 * AvgHsl(sIn).l.den
  /\ sOut.vibe = "classic & sharp"

\* ----------------------------------------------------------------------- C7
Buckets(in) == {KeyAt(in, k) : k \in Included(in)}

CountOf(in, key) == Cardinality({k \in Included(in) : KeyAt(in, k) = key})

RECURSIVE FSum(_, _)
\* dominant.reduce((a, c) => a + c.ratio, 0): the ratios added as doubles.
FSum(swatches, acc) ==
  IF swatches = <<>> THEN acc
  ELSE FSum(Tail(swatches), FAdd(acc, Head(swatches).ratio))

RECURSIVE ExactSum(_)
\* The ratios added as real numbers.
ExactSum(swatches) ==
  IF swatches = <<>> THEN FZero
  ELSE BAdd(Head(swatches).ratio, ExactSum(Tail(swatches)))

\* The bucket a swatch stands for, from its centre colour.
KeyOf(swatch) ==
  <<(swatch.rgb.r - 8) \div 16, (swatch.rgb.g - 8) \div 16,
    (swatch.rgb.b - 8) \div 16>>

RECURSIVE SumCounts(_, _)
SumCounts(in, swatches) ==
  IF swatches = <<>> THEN 0
  ELSE CountOf(in, KeyOf(Head(swatches))) + SumCounts(in, Tail(swatches))

RangesHold(out) ==
  /\ out.contrast \in 0..ByteMax
  /\ Len(out.dominant) \in 1..TopN
  /\ \A i \in 1..Len(out.dominant) :
       /\ BLess(FZero, out.dominant[i].ratio)
       /\ ~BLess(FOne, out.dominant[i].ratio)

\* The claim's statement about the sum, for one way of adding the ratios.
SumsToOne(in, sum) ==
  /\ ~BLess(FOne, sum)
  /\ Cardinality(Buckets(in)) <= TopN => sum = FOne

\* C7 as claimed: 0 <= contrast <= 255, 1 to 5 swatches, each ratio in (0, 1],
\* and the ratios sum to at most 1.0, exactly 1.0 when the region has at most
\* 5 buckets.  The sum is read either as the ratios added in list order by
\* JavaScript's + or as their sum as real numbers; the formula fails only in a
\* state where the claim fails under both readings.
C7_RatiosSumToOne ==
  (StatsDone /\ sOut # Null) =>
    /\ RangesHold(sOut)
    /\ \/ SumsToOne(sIn, FSum(sOut.dominant, FZero))
       \/ SumsToOne(sIn, ExactSum(sOut.dominant))

\* C7 amended: 0 <= contrast <= 255, 1 to 5 swatches, each ratio is the double
\* count / pxCount of a bucket of its own and lies in (0, 1], and the counts
\* behind the ratios sum to at most pxCount, exactly pxCount when the region
\* has at most 5 buckets.
C7_CountsSumToPxCount ==
  (StatsDone /\ sOut # Null) =>
    /\ RangesHold(sOut)
    /\ \A i \in 1..Len(sOut.dominant) :
         /\ sOut.dominant[i].ratio
              = FDivide(CountOf(sIn, KeyOf(sOut.dominant[i])), sOut.pxCount)
         /\ \A j \in 1..Len(sOut.dominant) :
              i # j => KeyOf(sOut.dominant[i]) # KeyOf(sOut.dominant[j])
    /\ SumCounts(sIn, sOut.dominant) <= sOut.pxCount
    /\ Cardinality(Buckets(sIn)) <= TopN
         => SumCounts(sIn, sOut.dominant) = sOut.pxCount

\* Three buckets with 4, 1 and 1 of 6 pixels: the counts sum to 6 and the
\* ratios, added as doubles, to less than 1.0.
C7_Witness ==
  /\ StatsDone /\ sOut # Null
  /\ Cardinality(Buckets(sIn)) = 3
  /\ sOut.pxCount = 6
  /\ SumCounts(sIn, sOut.dominant) = 6
  /\ BLess(FSum(sOut.dominant, FZero), FOne)

\* ---------------------------------------------------------------------- C10
\* The first pixel of the row-major scan, among the included ones inc, that
\* falls in bucket key.
FirstSeen(in, inc, key) ==
  LET ks == {k \in inc : KeyAt(in, k) = key}
  IN CHOOSE k \in ks : \A j \in ks : k <= j

\* key a comes before key b: a higher count, or the same count and seen first
\* in the row-major scan.  cnt and fst map each bucket to its count and to the
\* number of its first pixel.
Before(cnt, fst, a, b) ==
  \/ cnt[a] > cnt[b]
  \/ cnt[a] = cnt[b] /\ fst[a] < fst[b]

Rank(cnt, fst, key) ==
  Cardinality({o \in DOMAIN cnt : Before(cnt, fst, o, key)})

TopFiveStable(dominant, pxCount, cnt, fst) ==
  /\ Len(dominant) = Min2(TopN, Cardinality(DOMAIN cnt))
  /\ \A i \in 1..Len(dominant) :
       \E key \in DOMAIN cnt :
         /\ Rank(cnt, fst, key) = i - 1
         /\ dominant[i].rgb = [r |-> key[1] * 16 + 8, g |-> key[2] * 16 + 8,
                               b |-> key[3] * 16 + 8]
         /\ dominant[i].hex = toHex(key[1] * 16 + 8, key[2] * 16 + 8,
                                    key[3] * 16 + 8)
         /\ dominant[i].ratio = FDivide(cnt[key], pxCount)

\* The swatches of the returned profile are the buckets of the included pixels
\* in rank order, cut to TopN.
DominantRanked ==
    LET inc == Included(sIn)
        keys == [k \in inc |-> KeyAt(sIn, k)]
        B == {keys[k] : k \in inc}
    IN TopFiveStable(sOut.dominant, sOut.pxCount,
                     [key \in B |-> Cardinality({k \in inc : keys[k] = key})],
                     [key \in B |-> FirstSeen(sIn, inc, key)])

\* C10: every non-empty region gets a profile whose dominant swatches are the
\* up to 5 buckets of highest count, in non-increasing count order with equal
\* counts in first-encounter order; a swatch's colour is its bucket centre and
\* its ratio is count / pxCount.
C10_DominantTopFiveStable ==
  (StatsDone /\ Included(sIn) # {}) =>
    /\ sOut # Null
    /\ DominantRanked

\* The order of C10 for the profiles computeStats returns.
C10_DominantOfReturnedProfile ==
  (StatsDone /\ sOut # Null) => DominantRanked

\* Six buckets, the first-seen one with a single pixel and a later one with
\* two: the later one leads, the first-seen one follows, one bucket is cut.
C10_Witness ==
  /\ StatsDone /\ sOut # Null
  /\ Cardinality(Buckets(sIn)) = TopN + 1
  /\ Len(sOut.dominant) = TopN
  /\ \E k \in Included(sIn) : k > 0 /\ CountOf(sIn, KeyAt(sIn, k)) = 2
  /\ CountOf(sIn, KeyAt(sIn, 0)) = 1
  /\ sOut.dominant[2].rgb.r = KeyAt(sIn, 0)[1] * 16 + 8

\* ------------------------------------------------- the analysis, as claimed
\* analyze has built the mask, the sub-masks and the profiles.
RunSplit == run.stage \in {"split", "found"}

\* The number of pixels of the image under analysis.
RunPixels == run.imageData.width * run.imageData.height

\* Pixel number k (y * width + x) has a non-zero alpha in mask m.
Marked(m, k) == m.data[k * 4 + 4] # 0

Foreground == {k \in 0..(RunPixels - 1) : Marked(run.mask, k)}

RowOf(k) == k \div run.imageData.width

\* The whole image as a region.
WholeImage == [imageData |-> run.imageData, mask |-> Null]

\* ----------------------------------------------------------------------- C2
\* C2: when the mask has a foreground pixel, midY is floor((minY + maxY) / 2)
\* over the rows of the foreground, a pixel is in the upper sub-mask exactly
\* when it is foreground and its row is at most midY, and in the lower one
\* exactly when it is foreground and its row is greater than midY; bounding
\* rows 10..50 give midY = 30, row 30 is upper and row 31 is lower.
C2_MidlinePartition ==
  /\ MidY(10, 50) = 30 /\ InTop(30, MidY(10, 50)) /\ ~InTop(31, MidY(10, 50))
  /\ (RunSplit /\ Foreground # {}) =>
       LET rows == {RowOf(k) : k \in Foreground}
           minY == CHOOSE y \in rows : \A z \in rows : y <= z
           maxY == CHOOSE y \in rows : \A z \in rows : y >= z
           midY == CHOOSE m \in 0..maxY :
                     2 * m <= minY + maxY /\ minY + maxY < 2 * m + 2
       IN /\ run.topMask # Null /\ run.bottomMask # Null
          /\ \A k \in 0..(RunPixels - 1) :
               /\ Marked(run.topMask, k) <=>
                    (k \in Foreground /\ RowOf(k) <= midY)
               /\ Marked(run.bottomMask, k) <=>
                    (k \in Foreground /\ RowOf(k) > midY)
               /\ ~(Marked(run.topMask, k) /\ Marked(run.bottomMask, k))
               /\ (Marked(run.topMask, k) \/ Marked(run.bottomMask, k)) <=>
                    k \in Foreground

\* A foreground over rows 0..2: a foreground pixel of the midline row 1 is in
\* the upper sub-mask and one of row 2 is in the lower one.
C2_Witness ==
  /\ RunSplit
  /\ {RowOf(k) : k \in Foreground} = {0, 1, 2}
  /\ \E k \in Foreground : RowOf(k) = 1 /\ Marked(run.topMask, k)
  /\ \E k \in Foreground : RowOf(k) = 2 /\ Marked(run.bottomMask, k)

\* ----------------------------------------------------------------------- C3
\* The whitelist, as the claim counts it.
ElevenLabels ==
  {"tie", "backpack", "handbag", "umbrella", "suitcase", "sports ball",
   "skateboard", "bottle", "book", "cell phone", "laptop"}

\* The positions of the detections that pass.
Passing(detections) ==
  {i \in 1..Len(detections) :
     detections[i].class \in ElevenLabels /\ detections[i].score > 45}

\* C3: the findings are exactly the detections whose class is one of the 11
\* whitelisted labels and whose score is strictly above 0.45, in the
\* detector's order; a score of exactly 0.45 and a class off the list are
\* excluded; an analysis with no finding ends in a report, not an error.
C3_FindingsAreFilteredSubsequence ==
  /\ Cardinality(ElevenLabels) = 11
  /\ run.stage = "found" =>
       LET pass == Passing(run.detections)
       IN /\ Len(run.cocoFindings) = Cardinality(pass)
          /\ \A j \in 1..Len(run.cocoFindings) :
               LET i == CHOOSE i \in pass :
                          Cardinality({i2 \in pass : i2 < i}) = j - 1
               IN run.cocoFindings[j] = [class |-> run.detections[i].class,
                                         score |-> run.detections[i].score]
          /\ \A i \in 1..Len(run.detections) :
               (run.detections[i].score = 45
                \/ run.detections[i].class = "person") => i \notin pass
          /\ apc = "idle" => result.kind = "markdown"

\* A tie at exactly 0.45, a laptop at 0.46 and a tie at 0.90, in this order:
\* the findings are the laptop, then the second tie.
C3_Witness ==
  /\ run.stage = "found"
  /\ Len(run.detections) = 3
  /\ run.detections[1].class = "tie" /\ run.detections[1].score = 45
  /\ run.detections[2].class = "laptop" /\ run.detections[2].score = 46
  /\ run.detections[3].class = "tie" /\ run.detections[3].score = 90
  /\ Len(run.cocoFindings) = 2
  /\ run.cocoFindings[1].class = "laptop"
  /\ run.cocoFindings[2].class = "tie"

\* ----------------------------------------------------------------------- C4
\* The luma spread and the mean luma of the whole image, rounded.
GlobalContrast ==
  Round(MaxLuma(WholeImage) - MinLuma(WholeImage), LumaScale)

GlobalBrightness ==
  LET all == Included(WholeImage)
  IN Round(LumaR * SumOver(WholeImage, all, "r")
             + LumaG * SumOver(WholeImage, all, "g")
             + LumaB * SumOver(WholeImage, all, "b"),
           Cardinality(all) * LumaScale)

\* What a reader finds in the context the user typed.
Reading == CHOOSE s \in PromptSamples : s.text = prompt

\* C4: the verdict goes by first match on the context, whatever its case: with
\* a word of the formal group, "Good for formal/semi-formal." when the global
\* contrast is above 110 and "Might need sharper contrast for formal."
\* otherwise; else with a word of the casual group, by whether the global
\* brightness is above 90; else the versatile message.  A context with words
\* of both groups goes by the formal rule.
C4_OccasionFitFirstMatch ==
  result.kind = "markdown" =>
    result.md.occasion =
      IF Reading.formal
      THEN (IF GlobalContrast > 110 THEN "Good for formal/semi-formal."
            ELSE "Might need sharper contrast for formal.")
      ELSE IF Reading.casual
      THEN (IF GlobalBrightness > 90 THEN "Great for casual/social settings."
            ELSE "Add a lighter piece for approachability.")
      ELSE "Versatile - tweak with layers/accessories."

\* "Formal party" has a word of each group; on a bright image of low
\* contrast the report says the formal rule's "Might need sharper contrast".
C4_Witness ==
  /\ result.kind = "markdown"
  /\ Reading.formal /\ Reading.casual
  /\ GlobalBrightness > 90
  /\ GlobalContrast <= 110
  /\ result.md.occasion = "Might need sharper contrast for formal."

\* ----------------------------------------------------------------------- C8
\* C8: a segmentation array whose length differs from width * height makes the
\* analysis fail with InvalidImageData; no mask and no profile is made of it.
C8_MalformedSegmentationRejected ==
  (RunSplit /\ Len(run.segmentation) # RunPixels) =>
    /\ err = "InvalidImageData"
    /\ run.globalStats = Null /\ run.topStats = Null /\ run.bottomStats = Null
    /\ result.kind # "markdown"

\* ----------------------------------------------------------------------- C9
\* analyze has looked for the segmentation model and found none.
RanWithoutModel == run.stage = "image" /\ apc # "segment"

\* C9: an analysis that finds no segmentation model does not fail: the global
\* profile is computed over the whole image and the upper and lower profiles
\* are null; and when the segmentation marks no pixel as foreground, the
\* global profile is computed and both sub-profiles are null.
C9_FallsBackToUnsegmented ==
  /\ RanWithoutModel =>
       /\ apc # "rejected" /\ result.kind # "error"
       /\ run.globalStats # Null
       /\ run.topStats = Null /\ run.bottomStats = Null
  /\ (RunSplit /\ Foreground = {}) =>
       /\ run.globalStats # Null
       /\ run.topStats = Null /\ run.bottomStats = Null

\* The second half of C9 on its own.
C9_NoForegroundFallsBack ==
  (RunSplit /\ Foreground = {}) =>
    /\ run.globalStats # Null
    /\ run.topStats = Null /\ run.bottomStats = Null

\* ---------------------------------------------------------------------- C11
\* What computeStats returns for the region of a sub-mask of the run.
Returned(mask) ==
  IF mask # Null THEN computeStats(run.imageData, mask) ELSE Null

\* C11: no field of the global, upper or lower profile is added or overwritten
\* after computeStats has returned it: the profiles analyze hands to the
\* report are the ones computeStats returned.
C11_ProfilesNeverMutated ==
  RunSplit =>
    /\ run.globalStats = computeStats(run.imageData, Null)
    /\ run.topStats = Returned(run.topMask)
    /\ run.bottomStats = Returned(run.bottomMask)

\* C11 amended: the upper and lower profiles are as computeStats returned
\* them; the global profile has one field more, brightness, the rounded mean
\* luma of the whole image, and every field computeStats set, contrast among
\* them, has the value computeStats gave it, also in the report.
C11_OnlyBrightnessAdded ==
  RunSplit =>
    LET given == computeStats(run.imageData, Null)
    IN /\ DOMAIN run.globalStats = DOMAIN given \cup {"brightness"}
       /\ \A f \in DOMAIN given : run.globalStats[f] = given[f]
       /\ run.globalStats.brightness = GlobalBrightness
       /\ run.topStats = Returned(run.topMask)
       /\ run.bottomStats = Returned(run.bottomMask)
       /\ result.kind = "markdown" =>
            /\ result.md.vibe = given.vibe
            /\ result.md.exposure = given.exposureHint
            /\ result.md.avgHex = given.avgHex
            /\ result.md.dominant = domToStr(given)

\* A report built from a global profile whose added brightness differs from
\* its contrast, for an image with more than one luma.
C11_Witness ==
  /\ result.kind = "markdown"
  /\ "brightness" \in DOMAIN run.globalStats
  /\ run.globalStats.contrast > 0
  /\ run.globalStats.brightness # run.globalStats.contrast
  /\ run.globalStats.contrast = computeStats(run.imageData, Null).contrast

\* ---------------------------------------------------------------------- C12
\* The pixels of the image the segmentation marks as foreground.
SegMarks ==
  {k \in 0..(RunPixels - 1) :
     k + 1 <= Len(run.segmentation) /\ run.segmentation[k + 1] = 1}

\* The upper sub-mask has a pixel, and the lower one has none exactly when the
\* marked pixels lie in one row.
SubMasksByRows ==
  /\ run.topMask # Null /\ run.bottomMask # Null
  /\ \E k \in 0..(RunPixels - 1) : Marked(run.topMask, k)
  /\ (\A k \in 0..(RunPixels - 1) : ~Marked(run.bottomMask, k))
       <=> Cardinality({RowOf(k) : k \in SegMarks}) = 1

\* C12: whenever the segmentation marks a pixel, the upper sub-mask has a pixel
\* and the upper profile is non-null, and the lower sub-mask is empty and the
\* lower profile null exactly when all marked pixels lie in one row; the lower
\* profile may be absent with the upper one present, never the reverse.
C12_UpperPresentLowerByRows ==
  (RunSplit /\ SegMarks # {}) =>
    /\ SubMasksByRows
    /\ run.topStats # Null
    /\ run.bottomStats = Null <=> Cardinality({RowOf(k) : k \in SegMarks}) = 1
    /\ ~(run.topStats = Null /\ run.bottomStats # Null)

\* The part of C12 about the sub-masks alone.
C12_SubMasksByRows == (RunSplit /\ SegMarks # {}) => SubMasksByRows

\* ---------------------------------------------------------------------- C13
\* A submission starts: handleSubmit passes its check.
Starts == apc = "idle" /\ apc' # "idle"

\* A submission finishes: the finally block.
Finishes == loading /\ ~loading'

\* The result of the finished run: the report of its statistics, or its
\* error.
ResultOfRun ==
  \/ apc = "resolved"
       /\ result' = [kind |-> "markdown", md |-> buildMarkdown(run, prompt)]
  \/ apc = "rejected" /\ result' = [kind |-> "error", message |-> err]

\* The parts of C13 about single steps: a submission that passes the check
\* sets loading and empties result before the analysis starts, and the step
\* that sets loading back to false leaves in result the report of that run or
\* its error, never the empty result.
C13_SubmitStepwise ==
  [][/\ Starts => loading' /\ result' = NoResult
     /\ Finishes => ResultOfRun /\ result' # NoResult]_vars

\* C13: every submission that passes the image-and-prompt check sets loading
\* and empties result before the analysis starts and, the awaited model calls
\* settling, eventually sets loading back to false; when it finishes, result
\* is the report built from that run's statistics or that run's error, never
\* a stale or empty result.
C13_SubmitSettles ==
  /\ [][/\ Starts => loading' /\ result' = NoResult
        /\ Finishes => ResultOfRun /\ result' # NoResult]_vars
  /\ loading ~> ~loading

\* The submission that never finishes: analyze waits for the onload of an
\* image whose request has ended broken, with no model call pending.
C13_WaitsForBrokenImage ==
  loading /\ apc = "onload" /\ imgState = "broken"

\* A submission of an image that had settled before the click finishes.
C13_SettledImageFinishes ==
  (loading /\ apc # "onload") ~> ~loading

\* ---------------------------------------------------------------------- C14
\* Both handles are unset or both are set.
RefsTogether == bodyPixRef = Null <=> cocoRef = Null

\* A handle changes only when the loader's last await resolves, both loads
\* having succeeded, with the component mounted; both become set together.
RefsSetByLoader ==
  (bodyPixRef' # bodyPixRef \/ cocoRef' # cocoRef) =>
    /\ lpc = "coco" /\ lpc' = "done" /\ isMounted
    /\ bodyPixRef = Null /\ cocoRef = Null
    /\ bodyPixRef' # Null /\ cocoRef' # Null

\* The run has called segmentPerson or detect.
CalledModel ==
  apc \in {"segment", "detect", "resolved"} \/ run.stage \in {"split", "found"}

\* No run fails with "COCO-SSD not ready".
NoCocoError ==
  /\ err # "COCO-SSD not ready"
  /\ result.kind = "error" => result.message # "COCO-SSD not ready"

\* An analysis has failed with no model loaded.
FailedUnready == apc = "rejected" /\ bodyPixRef = Null

====
